---- MODULE Spec2Model ----
(***************************************************************************)
(* AeroLaunch (src/main.py): the application registry of MainWindow, its   *)
(* per-platform JSON configuration file, and the launch sweep.             *)
(*                                                                         *)
(* Python values are encoded as strings: PyNone, PyTrue and PyFalse stand  *)
(* for None, True and False; every other string is a Python str.  JSON     *)
(* values in the file are encoded the same way with JNull, JTrue, JFalse.  *)
(***************************************************************************)
EXTENDS Integers, Sequences, FiniteSets, TLC

\* ------------------------------------------------------------------ bounds

\* The longest application list explored: add is not taken beyond it.
MaxApps == 3

\* ------------------------------------------------------- values and inputs

PyNone == "None"
PyTrue == "True"
PyFalse == "False"

JNull == "null"
JTrue == "true"
JFalse == "false"
\* A key that a JSON object does not have.
Missing == "<missing>"

\* sys.platform
Platforms == {"win32", "darwin", "linux"}

\* Text a user types into the name fields of the two dialogs.
TypedNames == {"", "elevatex"}
\* Text a user types (or browses) into the path field.
TypedPaths == {"", "/opt/app"}

\* bool(v) for the values the model holds.
Truthy(v) == v \notin {PyNone, PyFalse, ""}

\* str.lower() on the names of the model.
Lower(s) ==
  CASE s = "Microsoft Flight Simulator" -> "microsoft flight simulator"
    [] s = "Elevatex" -> "elevatex"
    [] s = "ElevateX" -> "elevatex"
    [] s = "Navigraph Charts" -> "navigraph charts"
    [] OTHER -> s

\* --------------------------------------------------------------- FlightApp

\* A FlightApp object.
FlightApp(name, path, default_checked) ==
  [name |-> name, path |-> path, default_checked |-> default_checked]

\* json.dump of one Python value / json.load of one JSON value.
JsonDump(v) ==
  CASE v = PyNone -> JNull
    [] v = PyTrue -> JTrue
    [] v = PyFalse -> JFalse
    [] OTHER -> v

JsonLoad(j) ==
  CASE j = JNull -> PyNone
    [] j = JTrue -> PyTrue
    [] j = JFalse -> PyFalse
    [] OTHER -> j

\* FlightApp.to_dict, as it is written to the file.
to_dict(app) ==
  [name |-> JsonDump(app.name),
   path |-> JsonDump(app.path),
   default_checked |-> JsonDump(app.default_checked)]

\* dict.get(key, default) on a parsed JSON object.
DictGet(d, key, default) == IF d[key] = Missing THEN default ELSE JsonLoad(d[key])

\* from_dict that forgets the stored check state.
from_dict_unchecked(data) ==
  FlightApp(DictGet(data, "name", PyNone), DictGet(data, "path", PyNone), PyFalse)

\* FlightApp.from_dict.
from_dict(data) ==
  FlightApp(DictGet(data, "name", PyNone),
            DictGet(data, "path", PyNone),
            DictGet(data, "default_checked", PyFalse))

\* The list MainWindow.__init__ installs.
InitSeedApps ==
  << FlightApp("Microsoft Flight Simulator", PyNone, PyTrue),
     FlightApp("Elevatex", PyNone, PyFalse),
     FlightApp("Navigraph Charts", PyNone, PyFalse) >>

\* The list the two except branches of _load_config install.
ResetSeedApps ==
  << FlightApp("Microsoft Flight Simulator", PyNone, PyTrue),
     FlightApp("ElevateX", PyNone, PyFalse),
     FlightApp("Navigraph Charts", PyNone, PyFalse) >>

\* ------------------------------------------------------ configuration file

\* The value under one key of the document.
NoValue == [tag |-> "missing", arr |-> << >>]
ArrayValue(a) == [tag |-> "array", arr |-> a]
\* A value that is no array and is truthy (a non-empty string, a number).
OtherValue == [tag |-> "other", arr |-> << >>]

EmptyDoc == [p \in Platforms |-> NoValue]

\* The file: absent, not JSON, JSON that is no object, or a JSON object.
AbsentFile == [kind |-> "absent", doc |-> EmptyDoc]
InvalidFile == [kind |-> "invalid", doc |-> EmptyDoc]
NonObjectFile == [kind |-> "nonobject", doc |-> EmptyDoc]
ObjectFile(doc) == [kind |-> "object", doc |-> doc]

\* apps_for_platform of _save_config.
AppsForPlatform(apps) == [i \in 1..Len(apps) |-> to_dict(apps[i])]

\* _save_config that writes a document holding the current platform alone.
save_config_whole_file(f, plat, apps, writable) ==
  IF f.kind = "nonobject" \/ ~writable
    THEN [file |-> f, ok |-> FALSE]
    ELSE [file |-> ObjectFile([EmptyDoc EXCEPT
                                 ![plat] = ArrayValue(AppsForPlatform(apps))]),
          ok |-> TRUE]

\* _save_config without the inner except: a file that is not JSON makes the
\* save fail and stays as it was.
save_config_keep_invalid(f, plat, apps, writable) ==
  IF f.kind \in {"nonobject", "invalid"} \/ ~writable
    THEN [file |-> f, ok |-> FALSE]
    ELSE [file |-> ObjectFile([f.doc EXCEPT
                                 ![plat] = ArrayValue(AppsForPlatform(apps))]),
          ok |-> TRUE]

\* _save_config: the file it leaves and whether it wrote it.  json.load of a
\* file that is not JSON is caught (the document starts empty); item
\* assignment on a document that is no object raises TypeError and a failing
\* open(..., 'w') raises OSError, both caught by the outer except, which
\* leaves the file as it was.
save_config(f, plat, apps, writable) ==
  LET existing_config == IF f.kind = "object" THEN f.doc ELSE EmptyDoc
  IN  IF f.kind = "nonobject" \/ ~writable
        THEN [file |-> f, ok |-> FALSE]
        ELSE [file |-> ObjectFile([existing_config EXCEPT
                                     ![plat] = ArrayValue(AppsForPlatform(apps))]),
              ok |-> TRUE]

\* The objects built by the list comprehension of _load_config.
LoadedApps(arr) == [i \in 1..Len(arr) |-> from_dict(arr[i])]

\* _load_config that keeps the list without saving it when the file is absent
\* or holds nothing for the platform.
load_config_empty_unsaved(f, plat, apps, writable) ==
  LET keep(branch) ==
        [apps |-> apps, file |-> f, outcome |-> branch, save |-> "none"]
      reset(branch) ==
        LET s == save_config(f, plat, ResetSeedApps, writable)
        IN  [apps |-> ResetSeedApps, file |-> s.file, outcome |-> branch,
             save |-> IF s.ok THEN "ok" ELSE "failed"]
  IN  CASE f.kind = "absent" -> keep("notfound")
        [] f.kind = "invalid" -> reset("jsonerror")
        [] f.kind = "nonobject" -> reset("error")
        [] OTHER ->
             LET apps_data == f.doc[plat]
             IN  CASE apps_data.tag = "other" -> reset("error")
                   [] apps_data.tag = "array" /\ Len(apps_data.arr) > 0 ->
                        [apps |-> LoadedApps(apps_data.arr), file |-> f,
                         outcome |-> "loaded", save |-> "none"]
                   [] OTHER -> keep("empty")

\* _load_config with self.available_apps = apps on entry: the list it leaves,
\* the file it leaves, which branch it took and what its save did.
load_config(f, plat, apps, writable) ==
  LET keep(branch) ==
        LET s == save_config(f, plat, apps, writable)
        IN  [apps |-> apps, file |-> s.file, outcome |-> branch,
             save |-> IF s.ok THEN "ok" ELSE "failed"]
      reset(branch) ==
        LET s == save_config(f, plat, ResetSeedApps, writable)
        IN  [apps |-> ResetSeedApps, file |-> s.file, outcome |-> branch,
             save |-> IF s.ok THEN "ok" ELSE "failed"]
  IN  CASE f.kind = "absent" -> keep("notfound")
        [] f.kind = "invalid" -> reset("jsonerror")
        [] f.kind = "nonobject" -> reset("error")
        [] OTHER ->
             LET apps_data == f.doc[plat]
             IN  CASE apps_data.tag = "other" -> reset("error")
                   [] apps_data.tag = "array" /\ Len(apps_data.arr) > 0 ->
                        [apps |-> LoadedApps(apps_data.arr), file |-> f,
                         outcome |-> "loaded", save |-> "none"]
                   [] OTHER -> keep("empty")

\* ------------------------------------------------------------------- state

VARIABLES
  platform,        \* sys.platform of the running process
  file,            \* the contents of CONFIG_FILE
  diskWritable,    \* whether open(CONFIG_FILE, 'w') succeeds
  available_apps,  \* MainWindow.available_apps
  items,           \* the items of MainWindow.app_list_widget, in row order
  lastOp           \* the handler that ran last, its inputs and what it reported

vars == << platform, file, diskWritable, available_apps, items, lastOp >>

\* ------------------------------------------------------------------ widget

\* _update_app_list_widget: one item per application, holding the object (by
\* its position in available_apps, which every change of the list is followed
\* by a rebuild of the items) and the check state taken from default_checked.
update_app_list_widget(apps) ==
  [i \in 1..Len(apps) |->
     [app |-> i,
      checkState |-> IF Truthy(apps[i].default_checked) THEN "Checked" ELSE "Unchecked"]]

\* list.remove(x) for an object that is in the list.
Remove(apps, k) ==
  [i \in 1..(Len(apps) - 1) |-> IF i < k THEN apps[i] ELSE apps[i + 1]]

\* list.remove(x): the first element equal to x is taken out; ValueError when
\* there is none.  (FlightApp defines no __eq__, so equal means the same
\* object; the objects of one list differ in their names.)
list_remove(apps, x) ==
  LET at == { k \in 1..Len(apps) : apps[k] = x }
  IN  IF at = {}
        THEN [apps |-> apps, raised |-> "ValueError"]
        ELSE [apps |-> Remove(apps, CHOOSE k \in at : \A j \in at : k <= j),
              raised |-> "none"]

\* What a handler leaves in lastOp: which handler ran, the branch it took,
\* what its save did, and what it reported.
NoReport ==
  [exists |-> {}, popen |-> << >>, failures |-> << >>,
   launched_count |-> 0, found_count |-> 0]

LastOp(op, outcome, save, report) ==
  [op |-> op, outcome |-> outcome, save |-> save, report |-> report]

SaveStatus(s) == IF s.ok THEN "ok" ELSE "failed"

\* ------------------------------------------------------------ construction

\* An entry of another installation's list.
OtherEntry == [name |-> "Other", path |-> "/opt/other", default_checked |-> JTrue]
\* Entries written by hand: default_checked left out, or null.
BareEntry == [name |-> "Elevatex", path |-> Missing, default_checked |-> Missing]
NullEntry == [name |-> "Navigraph Charts", path |-> JNull, default_checked |-> JNull]

\* The document with the other platforms' keys filled and v under plat.
DocWith(plat, v) ==
  [p \in Platforms |-> IF p = plat THEN v ELSE ArrayValue(<< OtherEntry >>)]

\* The files a process may find when it starts.
InitialFiles(plat) ==
  { AbsentFile, InvalidFile, NonObjectFile,
    ObjectFile(DocWith(plat, NoValue)),
    ObjectFile(DocWith(plat, ArrayValue(<< >>))),
    ObjectFile(DocWith(plat, OtherValue)),
    ObjectFile(DocWith(plat, ArrayValue(<< OtherEntry >>))),
    ObjectFile(DocWith(plat, ArrayValue(<< BareEntry, NullEntry >>))) }

\* The starts explored: every file on darwin; on the other two platforms,
\* which run the same file code, a first run and (win32) a corrupt file.
StartFiles(plat) ==
  CASE plat = "darwin" -> InitialFiles(plat)
    [] plat = "win32" -> {AbsentFile, InvalidFile}
    [] OTHER -> {AbsentFile}

\* MainWindow.__init__ on the file f: the seed list, _load_config, the items.
Init ==
  /\ platform \in Platforms
  /\ diskWritable = TRUE
  /\ \E f \in StartFiles(platform) :
       LET l == load_config(f, platform, InitSeedApps, TRUE)
       IN  /\ available_apps = l.apps
           /\ file = l.file
           /\ items = update_app_list_widget(l.apps)
           /\ lastOp = LastOp("init", l.outcome, l.save, NoReport)

\* The process is closed and started again on the file it left.
Restart ==
  LET l == load_config(file, platform, InitSeedApps, diskWritable)
  IN  /\ available_apps' = l.apps
      /\ file' = l.file
      /\ items' = update_app_list_widget(l.apps)
      /\ lastOp' = LastOp("restart", l.outcome, l.save, NoReport)
      /\ UNCHANGED << platform, diskWritable >>

\* ---------------------------------------------------------------- checkbox

\* _handle_item_checked_changed inverting the stored flag instead of copying
\* the item's check state.
handle_item_checked_flip(apps, item, state) ==
  [apps EXCEPT ![item.app].default_checked =
     IF apps[item.app].default_checked = PyTrue THEN PyFalse ELSE PyTrue]

\* _handle_item_checked_changed for an item whose check state is now state.
handle_item_checked_changed(apps, item, state) ==
  [apps EXCEPT ![item.app].default_checked =
     IF state = "Checked" THEN PyTrue ELSE PyFalse]

\* The user clicks the checkbox of row i.
Toggle(i) ==
  LET state == IF items[i].checkState = "Checked" THEN "Unchecked" ELSE "Checked"
      apps == handle_item_checked_changed(available_apps, items[i], state)
      s == save_config(file, platform, apps, diskWritable)
  IN  /\ items' = [items EXCEPT ![i].checkState = state]
      /\ available_apps' = apps
      /\ file' = s.file
      /\ lastOp' = LastOp("toggle", "ok", SaveStatus(s), NoReport)
      /\ UNCHANGED << platform, diskWritable >>

ToggleItem == \E i \in 1..Len(items) : Toggle(i)

\* --------------------------------------------------------------------- add

\* any(app.name.lower() == name.lower() for app in self.available_apps)
NameTaken(apps, name) == \E k \in 1..Len(apps) : Lower(apps[k].name) = Lower(name)

\* The branch _add_custom_application takes: ok and app_name come from
\* QInputDialog.getText, accepted and the new name and path from the
\* EditApplicationDialog opened on app_name.
add_outcome(apps, ok, app_name, accepted, new_app_name, new_app_path) ==
  IF ok /\ Truthy(app_name)
    THEN IF NameTaken(apps, app_name)
           THEN "DuplicateName"
           ELSE IF accepted
                  THEN IF ~Truthy(new_app_path)
                         THEN "EmptyPath"
                         ELSE IF Lower(new_app_name) # Lower(app_name)
                                 /\ NameTaken(apps, new_app_name)
                                THEN "DuplicateName"
                                ELSE "ok"
                  ELSE "cancelled"
    ELSE IF ok /\ ~Truthy(app_name) THEN "EmptyName" ELSE "cancelled"

\* _add_custom_application putting the new object at the head of the list.
add_apply_front(apps, outcome, new_app_name, new_app_path) ==
  IF outcome = "ok"
    THEN << FlightApp(new_app_name, new_app_path, PyFalse) >> \o apps
    ELSE apps

\* The list _add_custom_application leaves.
add_apply(apps, outcome, new_app_name, new_app_path) ==
  IF outcome = "ok"
    THEN Append(apps, FlightApp(new_app_name, new_app_path, PyFalse))
    ELSE apps

\* _add_custom_application with what the user enters in the two dialogs.
AddApp(ok, app_name, accepted, new_app_name, new_app_path) ==
  LET outcome == add_outcome(available_apps, ok, app_name, accepted,
                             new_app_name, new_app_path)
      apps == add_apply(available_apps, outcome, new_app_name, new_app_path)
      s == save_config(file, platform, apps, diskWritable)
  IN  /\ available_apps' = apps
      /\ items' = IF outcome = "ok" THEN update_app_list_widget(apps) ELSE items
      /\ file' = IF outcome = "ok" THEN s.file ELSE file
      /\ lastOp' = LastOp("add", outcome,
                          IF outcome = "ok" THEN SaveStatus(s) ELSE "none", NoReport)
      /\ UNCHANGED << platform, diskWritable >>

\* The second dialog opens only when the first was accepted with a name that
\* is not empty and not taken; its fields are read only when it is accepted.
DialogOpens(apps, ok, app_name) == ok /\ Truthy(app_name) /\ ~NameTaken(apps, app_name)

\* The user presses "Add Custom Application...".
AddCustomApplication ==
  \E ok \in BOOLEAN, app_name \in TypedNames :
    \E accepted \in IF DialogOpens(available_apps, ok, app_name) THEN BOOLEAN ELSE {FALSE} :
      \E new_app_name \in IF accepted THEN TypedNames ELSE {app_name},
         new_app_path \in IF accepted THEN TypedPaths ELSE {""} :
        /\ add_outcome(available_apps, ok, app_name, accepted,
                       new_app_name, new_app_path) = "ok"
             => Len(available_apps) < MaxApps
        /\ AddApp(ok, app_name, accepted, new_app_name, new_app_path)

\* -------------------------------------------------------------------- edit

\* any(app.name.lower() == new_name.lower()
\*     for app in self.available_apps if app != app_to_edit)
NameTakenByOther(apps, k, name) ==
  \E j \in 1..Len(apps) : j # k /\ Lower(apps[j].name) = Lower(name)

\* _edit_selected_application comparing names with == instead of lower().
edit_outcome_case_sensitive(apps, k, accepted, new_name, new_path) ==
  IF accepted
    THEN IF ~Truthy(new_name)
           THEN "EmptyName"
           ELSE IF ~Truthy(new_path)
                  THEN "EmptyPath"
                  ELSE IF new_name # apps[k].name
                          /\ (\E j \in 1..Len(apps) : j # k /\ apps[j].name = new_name)
                         THEN "DuplicateName"
                         ELSE "ok"
    ELSE "cancelled"

\* The branch _edit_selected_application takes for the object at position k.
edit_outcome(apps, k, accepted, new_name, new_path) ==
  IF accepted
    THEN IF ~Truthy(new_name)
           THEN "EmptyName"
           ELSE IF ~Truthy(new_path)
                  THEN "EmptyPath"
                  ELSE IF Lower(new_name) # Lower(apps[k].name)
                          /\ NameTakenByOther(apps, k, new_name)
                         THEN "DuplicateName"
                         ELSE "ok"
    ELSE "cancelled"

\* _edit_selected_application assigning the path before the duplicate check.
edit_apply_before_check(apps, k, outcome, new_name, new_path) ==
  CASE outcome = "ok" -> [apps EXCEPT ![k].name = new_name, ![k].path = new_path]
    [] outcome = "DuplicateName" -> [apps EXCEPT ![k].path = new_path]
    [] OTHER -> apps

\* _edit_selected_application putting a new object in the place of the one
\* that was selected.
edit_apply_fresh_object(apps, k, outcome, new_name, new_path) ==
  IF outcome = "ok"
    THEN [apps EXCEPT ![k] = FlightApp(new_name, new_path, PyFalse)]
    ELSE apps

\* The list _edit_selected_application leaves.
edit_apply(apps, k, outcome, new_name, new_path) ==
  IF outcome = "ok"
    THEN [apps EXCEPT ![k].name = new_name, ![k].path = new_path]
    ELSE apps

\* The text the dialog's path field starts with.
DialogPath(app) == IF Truthy(app.path) THEN app.path ELSE ""

\* _edit_selected_application with row i selected and what the user enters.
EditApp(i, accepted, new_name, new_path) ==
  LET k == items[i].app
      outcome == edit_outcome(available_apps, k, accepted, new_name, new_path)
      apps == edit_apply(available_apps, k, outcome, new_name, new_path)
      s == save_config(file, platform, apps, diskWritable)
  IN  /\ available_apps' = apps
      /\ items' = IF outcome = "ok" THEN update_app_list_widget(apps) ELSE items
      /\ file' = IF outcome = "ok" THEN s.file ELSE file
      /\ lastOp' = LastOp("edit", outcome,
                          IF outcome = "ok" THEN SaveStatus(s) ELSE "none", NoReport)
      /\ UNCHANGED << platform, diskWritable >>

\* The names and paths the dialog can return for the object app.
EditNames(app) == TypedNames \cup {app.name}
EditPaths(app) == TypedPaths \cup {DialogPath(app)}

\* The user selects row i and presses "Edit Selected Application".
EditSelectedApplication ==
  \E i \in 1..Len(items), accepted \in BOOLEAN :
    \E new_name \in IF accepted THEN EditNames(available_apps[items[i].app])
                                ELSE {available_apps[items[i].app].name},
       new_path \in IF accepted THEN EditPaths(available_apps[items[i].app])
                                ELSE {DialogPath(available_apps[items[i].app])} :
      EditApp(i, accepted, new_name, new_path)

\* ------------------------------------------------------------------ delete

\* _delete_selected_application with row i selected and the user's answer.
DeleteApp(i, reply) ==
  LET app_to_delete == available_apps[items[i].app]
      r == list_remove(available_apps, app_to_delete)
      outcome == CASE reply # "Yes" -> "cancelled"
                   [] r.raised # "none" -> r.raised
                   [] OTHER -> "ok"
      apps == IF outcome = "ok" THEN r.apps ELSE available_apps
      s == save_config(file, platform, apps, diskWritable)
  IN  /\ available_apps' = apps
      /\ items' = IF outcome = "ok" THEN update_app_list_widget(apps) ELSE items
      /\ file' = IF outcome = "ok" THEN s.file ELSE file
      /\ lastOp' = LastOp("delete", outcome,
                          IF outcome = "ok" THEN SaveStatus(s) ELSE "none", NoReport)
      /\ UNCHANGED << platform, diskWritable >>

\* The user selects row i, presses "Delete Selected Application" and answers.
DeleteSelectedApplication ==
  \E i \in 1..Len(items), reply \in {"Yes", "No"} : DeleteApp(i, reply)

\* --------------------------------------------------------------- discovery

\* The places _find_app_path probes for a name, in the order it probes them,
\* cut to the first one (ProgramFiles and the first subdirectory on win32,
\* /Applications on darwin).  A name without a descriptor on the platform
\* has none.
Candidates(plat, name) ==
  CASE plat = "win32" /\ name = "Microsoft Flight Simulator" ->
         << "C:/PF/Steam/FlightSimulator.exe" >>
    [] plat = "win32" /\ name = "ElevateX" ->
         << "C:/PF/Elevatex/Elevatex.exe" >>
    [] plat = "win32" /\ name = "Navigraph Charts" ->
         << "C:/PF/Navigraph/Navigraph Charts.exe" >>
    [] plat = "darwin" /\ name = "Navigraph Charts" ->
         << "/Applications/Navigraph Charts.app" >>
    [] OTHER -> << >>

\* The keys of app_info (win32) and macos_app_info (darwin).
DescriptorNames(plat) ==
  CASE plat = "win32" -> {"Microsoft Flight Simulator", "ElevateX", "Navigraph Charts"}
    [] plat = "darwin" -> {"Navigraph Charts"}
    [] OTHER -> {}

\* Every place probed on the platform.
ProbePaths(plat) ==
  UNION { { Candidates(plat, n)[c] : c \in 1..Len(Candidates(plat, n)) } :
          n \in DescriptorNames(plat) }

\* _find_app_path looking the name up without regard to letter case.
find_app_path_any_case(plat, name, exists) ==
  LET match == { n \in DescriptorNames(plat) : Lower(n) = Lower(name) }
  IN  IF match = {}
        THEN PyNone
        ELSE LET cand == Candidates(plat, CHOOSE n \in match : TRUE)
                 hits == { c \in 1..Len(cand) : cand[c] \in exists }
             IN  IF hits = {} THEN PyNone
                 ELSE cand[CHOOSE c \in hits : \A d \in hits : c <= d]

\* _find_app_path: the first probed place that exists, or None.
find_app_path(plat, name, exists) ==
  IF name \notin DescriptorNames(plat)
    THEN PyNone
    ELSE LET cand == Candidates(plat, name)
             hits == { c \in 1..Len(cand) : cand[c] \in exists }
         IN  IF hits = {} THEN PyNone
             ELSE cand[CHOOSE c \in hits : \A d \in hits : c <= d]

\* The loop body counting every path that was found, new or not.
discover_app_count_found(app_obj, new_path) ==
  IF Truthy(new_path)
    THEN [app |-> [app_obj EXCEPT !.path = new_path], found |-> 1]
    ELSE [app |-> app_obj, found |-> 0]

\* The body of the loop of _auto_discover_applications for one object.
discover_app(app_obj, new_path) ==
  LET original_path == app_obj.path
  IN  IF Truthy(new_path) /\ new_path # original_path
        THEN [app |-> [app_obj EXCEPT !.path = new_path], found |-> 1]
        ELSE IF ~Truthy(app_obj.path) /\ Truthy(new_path)
               THEN [app |-> [app_obj EXCEPT !.path = new_path], found |-> 1]
               ELSE [app |-> app_obj, found |-> 0]

\* The loop of _auto_discover_applications from position i on.
RECURSIVE discover_loop(_, _, _, _, _)
discover_loop(apps, plat, exists, i, found_count) ==
  IF i > Len(apps)
    THEN [apps |-> apps, found_count |-> found_count]
    ELSE LET d == discover_app(apps[i], find_app_path(plat, apps[i].name, exists))
         IN  discover_loop([apps EXCEPT ![i] = d.app], plat, exists, i + 1,
                           found_count + d.found)

\* _auto_discover_applications when the probed places in exists exist.
Discover(exists) ==
  LET d == discover_loop(available_apps, platform, exists, 1, 0)
      s == save_config(file, platform, d.apps, diskWritable)
  IN  /\ available_apps' = d.apps
      /\ items' = update_app_list_widget(d.apps)
      /\ file' = s.file
      /\ lastOp' = LastOp("discover", "ok", SaveStatus(s),
                          [NoReport EXCEPT !.found_count = d.found_count])
      /\ UNCHANGED << platform, diskWritable >>

\* The user presses "Auto-Discover Applications".
AutoDiscoverApplications == \E exists \in SUBSET ProbePaths(platform) : Discover(exists)

\* ------------------------------------------------------------------ launch

\* The loop body testing the path without looking at the check state.
launch_item_any_state(checkState, app, exists, popen_raises) ==
  IF Truthy(app.path) /\ app.path \in exists
    THEN IF popen_raises THEN "SpawnFailed" ELSE "Launched"
    ELSE IF checkState = "Checked" THEN "MissingTarget" ELSE "Skipped"

\* What the loop body of _launch_selected_applications does with one item:
\* nothing, the "Missing Path" warning, a Popen that raises, or a Popen
\* that returns.
launch_item(checkState, app, exists, popen_raises) ==
  IF checkState = "Checked"
    THEN IF Truthy(app.path) /\ app.path \in exists
           THEN IF popen_raises THEN "SpawnFailed" ELSE "Launched"
           ELSE "MissingTarget"
    ELSE "Skipped"

\* The loop body leaving the loop after the "Missing Path" warning.
launch_step_break_on_missing(acc, i, item, exists, fails) ==
  LET k == item.app
      apps == [acc.apps EXCEPT ![k].default_checked =
                 IF item.checkState = "Checked" THEN PyTrue ELSE PyFalse]
      what == IF item.checkState = "Checked"
                THEN IF Truthy(apps[k].path) /\ apps[k].path \in exists
                       THEN IF i \in fails THEN "SpawnFailed" ELSE "Launched"
                       ELSE "MissingTarget"
                ELSE "Skipped"
  IN  [apps |-> apps,
       popen |-> IF what \in {"SpawnFailed", "Launched"}
                   THEN Append(acc.popen, i) ELSE acc.popen,
       failures |-> IF what \in {"SpawnFailed", "MissingTarget"}
                      THEN Append(acc.failures, [kind |-> what, row |-> i])
                      ELSE acc.failures,
       launched_count |-> IF what = "Launched"
                            THEN acc.launched_count + 1 ELSE acc.launched_count,
       stop |-> what = "MissingTarget"]

\* The loop body counting before the Popen call, so that a call that raises
\* is counted too.
launch_step_count_first(acc, i, item, exists, fails) ==
  LET k == item.app
      apps == [acc.apps EXCEPT ![k].default_checked =
                 IF item.checkState = "Checked" THEN PyTrue ELSE PyFalse]
      what == IF item.checkState = "Checked"
                THEN IF Truthy(apps[k].path) /\ apps[k].path \in exists
                       THEN IF i \in fails THEN "SpawnFailed" ELSE "Launched"
                       ELSE "MissingTarget"
                ELSE "Skipped"
  IN  [apps |-> apps,
       popen |-> IF what \in {"SpawnFailed", "Launched"}
                   THEN Append(acc.popen, i) ELSE acc.popen,
       failures |-> IF what \in {"SpawnFailed", "MissingTarget"}
                      THEN Append(acc.failures, [kind |-> what, row |-> i])
                      ELSE acc.failures,
       launched_count |-> IF what \in {"SpawnFailed", "Launched"}
                            THEN acc.launched_count + 1 ELSE acc.launched_count,
       stop |-> FALSE]

\* One pass of the loop for row i: acc holds the objects, the rows Popen was
\* called for, the warnings shown, launched_count, and whether the loop was
\* left early (it never is).
launch_step(acc, i, item, exists, fails) ==
  LET k == item.app
      apps == [acc.apps EXCEPT ![k].default_checked =
                 IF item.checkState = "Checked" THEN PyTrue ELSE PyFalse]
      what == launch_item(item.checkState, apps[k], exists, i \in fails)
  IN  [apps |-> apps,
       popen |-> IF what \in {"SpawnFailed", "Launched"}
                   THEN Append(acc.popen, i) ELSE acc.popen,
       failures |-> IF what \in {"SpawnFailed", "MissingTarget"}
                      THEN Append(acc.failures, [kind |-> what, row |-> i])
                      ELSE acc.failures,
       launched_count |-> IF what = "Launched"
                            THEN acc.launched_count + 1 ELSE acc.launched_count,
       stop |-> FALSE]

\* The loop of _launch_selected_applications from row i on.
RECURSIVE launch_loop(_, _, _, _, _)
launch_loop(acc, i, its, exists, fails) ==
  IF i > Len(its) \/ acc.stop
    THEN acc
    ELSE launch_loop(launch_step(acc, i, its[i], exists, fails), i + 1, its,
                     exists, fails)

\* The paths a launch sweep can test.
HeldPaths(apps) == { apps[k].path : k \in { j \in 1..Len(apps) : Truthy(apps[j].path) } }

\* The rows whose Popen call can raise.
SpawnRows(its, apps, exists) ==
  { i \in 1..Len(its) :
      its[i].checkState = "Checked" /\ apps[its[i].app].path \in exists }

\* _launch_selected_applications when the paths in exists are on disk and
\* Popen raises for the rows in fails.
Launch(exists, fails) ==
  LET r == launch_loop([apps |-> available_apps, popen |-> << >>,
                        failures |-> << >>, launched_count |-> 0, stop |-> FALSE],
                       1, items, exists, fails)
      s == save_config(file, platform, r.apps, diskWritable)
  IN  /\ available_apps' = r.apps
      /\ items' = items
      /\ file' = s.file
      /\ lastOp' = LastOp("launch", "ok", SaveStatus(s),
                          [NoReport EXCEPT !.exists = exists,
                                           !.popen = r.popen,
                                           !.failures = r.failures,
                                           !.launched_count = r.launched_count])
      /\ UNCHANGED << platform, diskWritable >>

\* The user presses "Launch Selected Applications".
LaunchSelectedApplications ==
  \E exists \in SUBSET HeldPaths(available_apps) :
    \E fails \in SUBSET SpawnRows(items, available_apps, exists) :
      Launch(exists, fails)

\* ----------------------------------------------------------- specification

Next ==
  \/ Restart
  \/ ToggleItem
  \/ AddCustomApplication
  \/ EditSelectedApplication
  \/ DeleteSelectedApplication
  \/ AutoDiscoverApplications
  \/ LaunchSelectedApplications

Spec == Init /\ [][Next]_vars

\* The files a process may find on a disk that may refuse every write: none
\* (linux), or a document holding one entry for the platform (darwin).
StartFilesIO(plat) ==
  CASE plat = "linux" -> {AbsentFile}
    [] plat = "darwin" -> {ObjectFile(DocWith(plat, ArrayValue(<< OtherEntry >>)))}
    [] OTHER -> {}

\* MainWindow.__init__ when open(CONFIG_FILE, 'w') may fail for the whole run.
InitIO ==
  /\ platform \in Platforms
  /\ diskWritable \in BOOLEAN
  /\ \E f \in StartFilesIO(platform) :
       LET l == load_config(f, platform, InitSeedApps, diskWritable)
       IN  /\ available_apps = l.apps
           /\ file = l.file
           /\ items = update_app_list_widget(l.apps)
           /\ lastOp = LastOp("init", l.outcome, l.save, NoReport)

\* The same program on a disk that may refuse every write.
SpecIO == InitIO /\ [][Next]_vars

\* ------------------------------------------------------------------ claims

Rows == 1..Len(available_apps)

\* C1: in every reachable state no two distinct entries of the list have
\* names that are equal when compared case-insensitively.
C1_UniqueNames ==
  \A i \in Rows, j \in Rows :
    i # j => Lower(available_apps[i].name) # Lower(available_apps[j].name)

\* An add or an edit has succeeded on a list of at least two entries, one of
\* them under a name the user typed.
C1_Witness ==
  /\ lastOp.op \in {"add", "edit"}
  /\ lastOp.outcome = "ok"
  /\ Len(available_apps) >= 2
  /\ \E i \in Rows : available_apps[i].name = "elevatex"

\* What a start of the process would load after a save of the current list.
ReloadAfterSave ==
  LET s == save_config(file, platform, available_apps, diskWritable)
  IN  [saved |-> s.ok,
       apps |-> load_config(s.file, platform, InitSeedApps, diskWritable).apps]

\* C2 as stated: for every list the program can hold, a save that writes
\* the file followed by a reload yields the same ordered list, name, path
\* and checked of every entry preserved.
C2_RoundTripAnyList ==
  ReloadAfterSave.saved => ReloadAfterSave.apps = available_apps

\* C2 as amended: for every non-empty list the program can hold, a save that
\* writes the file followed by a reload yields the same ordered list, name,
\* path and checked of every entry preserved.
C2_RoundTripNonEmpty ==
  (ReloadAfterSave.saved /\ Len(available_apps) > 0)
    => ReloadAfterSave.apps = available_apps

\* The process has been started again and has loaded the list it had saved,
\* with a checked entry, an unchecked one and an entry the user added.
C2_Witness ==
  /\ lastOp.op = "restart"
  /\ lastOp.outcome = "loaded"
  /\ \E i \in Rows : available_apps[i].default_checked = PyTrue
  /\ \E i \in Rows : available_apps[i].default_checked = PyFalse
  /\ \E i \in Rows : available_apps[i].name = "elevatex" /\ available_apps[i].path = "/opt/app"

\* C3: no step changes, adds or removes what the file holds under a platform
\* key other than the current one.
C3_OtherKeysKept ==
  [][\A B \in Platforms \ {platform} : file'.doc[B] = file.doc[B]]_vars

\* A save has rewritten the current platform's array in a document that
\* holds another platform's entries.
C3_Witness ==
  /\ lastOp.op \in {"add", "edit", "delete", "toggle"}
  /\ lastOp.save = "ok"
  /\ \E B \in Platforms \ {platform} : file.doc[B] = ArrayValue(<< OtherEntry >>)
  /\ file.doc[platform] = ArrayValue(AppsForPlatform(available_apps))

\* The handlers that change the list or an entry.
MutatingOps == {"add", "edit", "delete", "toggle", "discover", "launch"}

\* C4: whenever an add, edit, delete, checkbox toggle, discovery sweep or
\* launch pass has completed, the array in the file under the current
\* platform key equals the in-memory list.
C4_SavedAfterEveryMutation ==
  (lastOp.op \in MutatingOps /\ lastOp.outcome = "ok")
    => /\ file.kind = "object"
       /\ file.doc[platform] = ArrayValue(AppsForPlatform(available_apps))

ValidationErrors == {"EmptyName", "EmptyPath", "DuplicateName"}

\* C5: a step in which add or edit is rejected with EmptyName, EmptyPath or
\* DuplicateName leaves the in-memory list and the file as they were.
C5_RejectionChangesNothing ==
  [][(lastOp'.op \in {"add", "edit"} /\ lastOp'.outcome \in ValidationErrors)
       => (available_apps' = available_apps /\ file' = file)]_vars

\* An edit has been rejected as a duplicate name.
C5_Witness ==
  /\ lastOp.op = "edit"
  /\ lastOp.outcome = "DuplicateName"

\* C6: an edit that renames its target to a name equal, case-insensitively,
\* to the name of a different entry is rejected, and an edit that keeps the
\* target's own name and gives a non-empty path is accepted.
C6_EditCollisionAndOwnName ==
  [][lastOp'.op = "edit" =>
       \A i \in 1..Len(items) :
         \A new_name \in EditNames(available_apps[items[i].app]),
            new_path \in EditPaths(available_apps[items[i].app]) :
           EditApp(i, TRUE, new_name, new_path) =>
             /\ NameTakenByOther(available_apps, items[i].app, new_name)
                  => (lastOp'.outcome \in ValidationErrors
                      /\ available_apps' = available_apps)
             /\ (new_name = available_apps[items[i].app].name /\ new_path # "")
                  => lastOp'.outcome = "ok"]_vars

\* C7: the entry a successful add appends has a non-empty name and a
\* non-empty path.
C7_AddedEntryNonEmpty ==
  (lastOp.op = "add" /\ lastOp.outcome = "ok")
    => /\ available_apps[Len(available_apps)].name # ""
       /\ available_apps[Len(available_apps)].path # ""

\* The last launch sweep: the rows Popen was called for, the rows a warning
\* was shown for, and the rows that were checked.
PopenRows == { lastOp.report.popen[k] : k \in DOMAIN lastOp.report.popen }
FailureRows(kind) ==
  { lastOp.report.failures[k].row :
      k \in { n \in DOMAIN lastOp.report.failures : lastOp.report.failures[n].kind = kind } }
CheckedRows == { i \in 1..Len(items) : items[i].checkState = "Checked" }
PathOf(i) == available_apps[items[i].app].path
OnDisk(i) == Truthy(PathOf(i)) /\ PathOf(i) \in lastOp.report.exists

\* C8: in a launch sweep an entry with checked = false gets no Popen call
\* and no warning, and the count reported stays within the checked entries.
C8_UncheckedNeverLaunched ==
  lastOp.op = "launch" =>
    /\ \A i \in 1..Len(items) :
         available_apps[items[i].app].default_checked = PyFalse
           => /\ i \notin PopenRows
              /\ i \notin FailureRows("MissingTarget") \cup FailureRows("SpawnFailed")
    /\ lastOp.report.launched_count <= Cardinality(CheckedRows)

\* A sweep has launched an entry and passed over an unchecked one whose
\* path is on disk.
C8_Witness ==
  /\ lastOp.op = "launch"
  /\ lastOp.report.launched_count >= 1
  /\ \E i \in 1..Len(items) :
       available_apps[items[i].app].default_checked = PyFalse /\ OnDisk(i)

\* C9: in a launch sweep a checked entry whose path is empty or not on disk
\* gets exactly one MissingTarget warning and no Popen call, and every
\* checked entry after it is still processed.
C9_MissingTargetContinues ==
  lastOp.op = "launch" =>
    \A i \in CheckedRows :
      ~OnDisk(i) =>
        /\ Cardinality({ k \in DOMAIN lastOp.report.failures :
                           lastOp.report.failures[k] = [kind |-> "MissingTarget", row |-> i] }) = 1
        /\ i \notin PopenRows
        /\ \A j \in CheckedRows :
             j > i => j \in PopenRows \cup FailureRows("MissingTarget")

\* A sweep has warned about a missing path and then launched a later entry.
C9_Witness ==
  /\ lastOp.op = "launch"
  /\ \E i \in CheckedRows, j \in CheckedRows :
       i < j /\ ~OnDisk(i) /\ j \in PopenRows /\ j \notin FailureRows("SpawnFailed")

\* C10: in a launch sweep every checked entry whose path is on disk gets
\* exactly one Popen call whatever happened to the entries before it, and
\* the count reported is the number of Popen calls that returned.
C10_SpawnErrorContinues ==
  lastOp.op = "launch" =>
    /\ \A i \in CheckedRows :
         OnDisk(i) => Cardinality({ k \in DOMAIN lastOp.report.popen :
                                      lastOp.report.popen[k] = i }) = 1
    /\ lastOp.report.launched_count
         = Len(lastOp.report.popen) - Cardinality(FailureRows("SpawnFailed"))

\* A sweep has had a Popen call raise and has then launched a later entry.
C10_Witness ==
  /\ lastOp.op = "launch"
  /\ \E i \in FailureRows("SpawnFailed"), j \in PopenRows :
       i < j /\ j \notin FailureRows("SpawnFailed")
  /\ lastOp.report.launched_count >= 1

\* The three seed entries: the names up to letter case, no path, and the
\* first one alone checked.
SeedNames == << "microsoft flight simulator", "elevatex", "navigraph charts" >>

IsSeedList(apps) ==
  /\ Len(apps) = Len(SeedNames)
  /\ \A i \in 1..Len(apps) :
       /\ Lower(apps[i].name) = SeedNames[i]
       /\ apps[i].path = PyNone
       /\ apps[i].default_checked = (IF i = 1 THEN PyTrue ELSE PyFalse)
  /\ apps[1].name = "Microsoft Flight Simulator"

\* The file is a JSON object whose array under the current platform key is
\* the in-memory list.
FileHoldsList ==
  /\ file.kind = "object"
  /\ file.doc[platform] = ArrayValue(AppsForPlatform(available_apps))

Starts == {"init", "restart"}

\* C11: after a start that found no file, or a file whose current-platform
\* key is absent or empty, the list is the three seed entries, Microsoft
\* Flight Simulator alone checked, and the file exists and holds those three
\* entries under the current platform key.
C11_FreshStartSeeds ==
  (lastOp.op \in Starts /\ lastOp.outcome \in {"notfound", "empty"})
    => (IsSeedList(available_apps) /\ FileHoldsList)

\* The process has been started again on a file whose array for the platform
\* had been emptied, next to another platform's entries.
C11_Witness ==
  /\ lastOp.op = "restart"
  /\ lastOp.outcome = "empty"
  /\ Len(available_apps) = 3
  /\ \E B \in Platforms \ {platform} : file.doc[B] = ArrayValue(<< OtherEntry >>)

\* C12: after a start that found a file that is not JSON, the list is the
\* three seed entries and the file is a JSON document holding them under the
\* current platform key.
C12_InvalidJsonReset ==
  (lastOp.op \in Starts /\ lastOp.outcome = "jsonerror")
    => (IsSeedList(available_apps) /\ FileHoldsList)

\* A start has found a file that is not JSON and has written the seeds.
C12_Witness ==
  /\ lastOp.op = "init"
  /\ lastOp.outcome = "jsonerror"
  /\ lastOp.save = "ok"
  /\ file.doc[platform] = ArrayValue(AppsForPlatform(ResetSeedApps))

\* C13: after a start that parsed the file as JSON and then failed to load
\* it (the document is no object, or the value under the platform key is no
\* array of entry objects), the list is the three seed entries and the file
\* is a JSON object holding them under the current platform key.
C13_LoadErrorHealed ==
  (lastOp.op \in Starts /\ lastOp.outcome = "error")
    => (IsSeedList(available_apps) /\ FileHoldsList)

\* C14: after an add, edit, delete, checkbox toggle, discovery sweep or launch
\* pass whose save failed on a disk that refuses the write, the in-memory
\* list holds no change that the file does not hold.
C14_FailedSaveAbandons ==
  (lastOp.op \in MutatingOps /\ lastOp.save = "failed" /\ file.kind # "nonobject")
    => FileHoldsList

\* C15: in a discovery sweep, for an entry whose name has no descriptor on
\* the current platform, _find_app_path returns None whatever is on disk and
\* the sweep leaves the entry as it was.
C15_UnknownNameUntouched ==
  [][lastOp'.op = "discover" =>
       \A i \in Rows :
         available_apps[i].name \notin DescriptorNames(platform) =>
           /\ \A exists \in SUBSET ProbePaths(platform) :
                find_app_path(platform, available_apps[i].name, exists) = PyNone
           /\ available_apps'[i] = available_apps[i]]_vars

\* A sweep has found a path for one entry and has passed over an entry
\* whose name has no descriptor on the platform.
C15_Witness ==
  /\ lastOp.op = "discover"
  /\ lastOp.report.found_count >= 1
  /\ \E i \in Rows :
       /\ available_apps[i].name \notin DescriptorNames(platform)
       /\ available_apps[i].path = PyNone

\* C16: in a discovery sweep an entry's path changes exactly when
\* _find_app_path returns a non-empty path that differs from the entry's
\* path, it then becomes that path, and found_count is the number of entries
\* whose path changed.
C16_PathChangedIffFound ==
  [][lastOp'.op = "discover" =>
       \A exists \in SUBSET ProbePaths(platform) :
         Discover(exists) =>
           LET changed == { i \in Rows : available_apps'[i].path # available_apps[i].path }
           IN  /\ \A i \in Rows :
                    LET new_path == find_app_path(platform, available_apps[i].name, exists)
                    IN  /\ i \in changed <=> (Truthy(new_path)
                                              /\ new_path # available_apps[i].path)
                        /\ i \in changed => available_apps'[i].path = new_path
               /\ lastOp'.report.found_count = Cardinality(changed)]_vars

\* A sweep has changed the path of one entry while another entry already
\* held the path found for it.
C16_Witness ==
  /\ lastOp.op = "discover"
  /\ lastOp.report.found_count = 1
  /\ Cardinality({ i \in Rows : available_apps[i].path \in ProbePaths(platform) }) >= 2

\* C17: for every item and either check state, running
\* _handle_item_checked_changed (with its save) a second time on the result
\* of the first run leaves the list and the file as the first run left them.
C17_SetCheckedIdempotent ==
  \A i \in 1..Len(items), state \in {"Checked", "Unchecked"} :
    LET apps1 == handle_item_checked_changed(available_apps, items[i], state)
        s1 == save_config(file, platform, apps1, diskWritable)
        apps2 == handle_item_checked_changed(apps1, items[i], state)
        s2 == save_config(s1.file, platform, apps2, diskWritable)
    IN  apps2 = apps1 /\ s2.file = s1.file

\* A checkbox has been unchecked and the file holds the list, with another
\* entry still checked.
C17_Witness ==
  /\ lastOp.op = "toggle"
  /\ lastOp.save = "ok"
  /\ FileHoldsList
  /\ \E i \in Rows, j \in Rows :
       /\ available_apps[i].default_checked = PyFalse
       /\ available_apps[j].default_checked = PyTrue

\* Objects a caller may hand to list.remove.
RemoveTargets ==
  { FlightApp("elevatex", "/opt/app", PyFalse),
    FlightApp("Microsoft Flight Simulator", PyNone, PyTrue) }

C19_CheckedIsBoolean ==
  \A i \in Rows : available_apps[i].default_checked \in {PyTrue, PyFalse}

\* C20: a successful add makes the list one longer, puts an entry with
\* default_checked False at its end, and leaves the entries it held before
\* as they were, in their order.
C20_AddAppendsUnchecked ==
  [][(lastOp'.op = "add" /\ lastOp'.outcome = "ok") =>
       /\ Len(available_apps') = Len(available_apps) + 1
       /\ SubSeq(available_apps', 1, Len(available_apps)) = available_apps
       /\ available_apps'[Len(available_apps')].default_checked = PyFalse]_vars

\* An entry has been added behind a checked entry and holds the path typed.
C20_Witness ==
  /\ lastOp.op = "add"
  /\ lastOp.outcome = "ok"
  /\ available_apps[1].default_checked = PyTrue
  /\ available_apps[Len(available_apps)] = FlightApp("elevatex", "/opt/app", PyFalse)

\* C21: a successful edit gives the selected entry the name and the path
\* typed, leaves it at its position with its default_checked, and leaves
\* every other entry and the length of the list as they were.
C21_EditInPlace ==
  [][(lastOp'.op = "edit" /\ lastOp'.outcome = "ok") =>
       \A i \in 1..Len(items) :
         \A new_name \in EditNames(available_apps[items[i].app]),
            new_path \in EditPaths(available_apps[items[i].app]) :
           EditApp(i, TRUE, new_name, new_path) =>
             LET k == items[i].app
             IN  /\ Len(available_apps') = Len(available_apps)
                 /\ available_apps'[k].name = new_name
                 /\ available_apps'[k].path = new_path
                 /\ available_apps'[k].default_checked = available_apps[k].default_checked
                 /\ \A j \in Rows : j # k => available_apps'[j] = available_apps[j]]_vars

\* A checked entry has been edited, next to other entries, and is still
\* checked under the path typed.
C21_Witness ==
  /\ lastOp.op = "edit"
  /\ lastOp.outcome = "ok"
  /\ Len(available_apps) >= 2
  /\ \E i \in Rows :
       /\ available_apps[i].path = "/opt/app"
       /\ available_apps[i].default_checked = PyTrue

\* C22: the list a start installs after a file that is not JSON, or that
\* could not be loaded, equals the list a start installs when there is no
\* file: same names, paths and default_checked, in the same order.
C22_OneSeedList ==
  (lastOp.op \in Starts /\ lastOp.outcome \in {"jsonerror", "error"})
    => available_apps
         = load_config(AbsentFile, platform, InitSeedApps, diskWritable).apps

\* C23: on win32, after a first run (no file), every entry has a name that
\* is a key of app_info, and _find_app_path returns a path for it when the
\* place probed for it exists.
C23_SeedsDiscoverableOnWindows ==
  (platform = "win32" /\ lastOp.op \in Starts /\ lastOp.outcome = "notfound")
    => \A i \in Rows :
         /\ available_apps[i].name \in DescriptorNames(platform)
         /\ find_app_path(platform, available_apps[i].name, ProbePaths(platform)) # PyNone

====
